---- MODULE Spec2Model ----
(***************************************************************************)
(* tracexec: the windowed event list of the TUI (src/tui/event_list.rs)    *)
(* and the pid-keyed process directory (src/state.rs).                     *)
(*                                                                         *)
(* A TracerEvent is represented by the display width of the line it        *)
(* renders to (evt.to_tui_line(..).width()), the only attribute of an      *)
(* event the list reads.  Option<T> is a sequence of length at most one.   *)
(***************************************************************************)
EXTENDS Integers, Sequences, FiniteSets, TLC

\* ---------------------------------------------------------------- bounds
MaxItems == 3
MaxWindowLen == 2
MaxAreaWidth == 2
MaxSelection == 2
MaxPid == 2
MaxObserved == 3

\* widths of the rendered lines the events of the model can have
LineWidths == {1, 3}

\* usize arithmetic wraps modulo 2^64 when overflow checks are off.  TLC's
\* integers are 32 bits wide, so the wrap is kept at 2^30: every index of the
\* bounded model is far below both moduli, hence every comparison and min a
\* wrapped value takes part in has the same outcome.
UsizeModulus == 2^30

\* ---------------------------------------------------------------- helpers
None == << >>
Some(x) == << x >>
unwrap_or(o, d) == IF o = None THEN d ELSE o[1]

Min(a, b) == IF a <= b THEN a ELSE b
Max(a, b) == IF a >= b THEN a ELSE b

saturating_sub(a, b) == IF a >= b THEN a - b ELSE 0
wrapping_sub(a, b) == IF a >= b THEN a - b ELSE a - b + UsizeModulus

\* ratatui ListState::select: selecting nothing also resets the offset
select(st, index) ==
  [selected |-> index, offset |-> IF index = None THEN 0 ELSE st.offset]

VARIABLES
  list,        \* the EventList
  panicked,    \* an arithmetic-overflow or slice-index panic has ended the program
  lastOp,      \* the operation applied last
  processes,   \* ProcessStateStore.processes: pid -> Vec<ProcessState>
  insertLog,   \* per pid, the states handed to insert, in call order
  found,       \* what the last get_current_mut returned: None or Some(<<pid, position>>)
  clock,       \* number of processes observed so far; the next start_time
  calls        \* how many times in a row the key held down has been applied

\* ---------------------------------------------------------------- EventList
EventList_new(follow) ==
  [ state              |-> [selected |-> None, offset |-> 0],
    items              |-> << >>,
    last_selected      |-> None,
    window             |-> <<0, 0>>,
    nr_items_in_window |-> 0,
    horizontal_offset  |-> 0,
    inner_width        |-> 0,
    max_width          |-> 0,
    max_window_len     |-> 0,
    follow             |-> follow ]

\* toggle_follow that jumps to the bottom whenever it is called
toggle_follow_jumps(l) ==
  LET w0 == saturating_sub(Len(l.items), l.max_window_len)
  IN [l EXCEPT !.follow = ~l.follow, !.window = <<w0, w0 + l.max_window_len>>]

toggle_follow(l) == [l EXCEPT !.follow = ~l.follow]

stop_follow(l) == [l EXCEPT !.follow = FALSE]

next_window(l) ==
  IF l.window[2] < Len(l.items)
    THEN [l EXCEPT !.window = <<l.window[1] + 1, l.window[2] + 1>>]
    ELSE l

previous_window(l) ==
  IF l.window[1] > 0
    THEN [l EXCEPT !.window = <<l.window[1] - 1, l.window[2] - 1>>]
    ELSE l

\* next() with a selection evaluates window.1 - window.0 - 1 and then
\* nr_items_in_window - 1 on usize: either goes below zero in these states.
next_underflows(l) ==
  /\ l.state.selected # None
  /\ \/ l.window[2] - l.window[1] < 1
     \/ l.nr_items_in_window < 1

\* next() that selects row 0 whenever nothing is selected, whatever row
\* unselect remembered
next_forgets_row(l) ==
  IF l.state.selected = None
    THEN [l EXCEPT !.state = select(l.state, Some(0))]
    ELSE
      LET i    == l.state.selected[1]
          last == wrapping_sub(wrapping_sub(l.window[2], l.window[1]), 1)
          l1   == IF i >= last THEN next_window(l) ELSE l
          j    == IF i >= last THEN i ELSE i + 1
          k    == Min(j, wrapping_sub(l.nr_items_in_window, 1))
      IN [l1 EXCEPT !.state = select(l1.state, Some(k))]

\* next() as it runs without overflow checks (wrapping arithmetic); where
\* next_underflows is false this is also what a checked build computes.
next(l) ==
  IF l.state.selected = None
    THEN [l EXCEPT !.state = select(l.state, Some(unwrap_or(l.last_selected, 0)))]
    ELSE
      LET i    == l.state.selected[1]
          last == wrapping_sub(wrapping_sub(l.window[2], l.window[1]), 1)
          l1   == IF i >= last THEN next_window(l) ELSE l
          j    == IF i >= last THEN i ELSE i + 1
          k    == Min(j, wrapping_sub(l.nr_items_in_window, 1))
      IN [l1 EXCEPT !.state = select(l1.state, Some(k))]

previous(l) ==
  IF l.state.selected = None
    THEN [l EXCEPT !.state = select(l.state, Some(unwrap_or(l.last_selected, 0)))]
    ELSE
      LET i  == l.state.selected[1]
          l1 == IF i = 0 THEN previous_window(l) ELSE l
          j  == IF i = 0 THEN i ELSE i - 1
      IN [l1 EXCEPT !.state = select(l1.state, Some(j))]

\* unselect that does nothing when no row is selected
unselect_keeps_row(l) ==
  IF l.state.selected = None THEN l
  ELSE LET offset == l.state.offset
           st     == select(l.state, None)
       IN [l EXCEPT !.last_selected = l.state.selected,
                    !.state = [st EXCEPT !.offset = offset]]

unselect(l) ==
  LET offset == l.state.offset
      st     == select(l.state, None)
  IN [l EXCEPT !.last_selected = l.state.selected,
               !.state = [st EXCEPT !.offset = offset]]

\* page_down that always slides by a page, without the clamp to the tail
page_down_always_slides(l) ==
  [l EXCEPT !.window = <<l.window[1] + l.max_window_len,
                         l.window[2] + l.max_window_len>>]

\* page_down that does nothing when a whole page does not fit below
page_down_stays_put(l) ==
  IF l.window[2] + l.max_window_len <= Len(l.items)
    THEN [l EXCEPT !.window = <<l.window[1] + l.max_window_len,
                                l.window[2] + l.max_window_len>>]
    ELSE l

page_down(l) ==
  IF l.window[2] + l.max_window_len <= Len(l.items)
    THEN [l EXCEPT !.window = <<l.window[1] + l.max_window_len,
                                l.window[2] + l.max_window_len>>]
    ELSE LET w0 == saturating_sub(Len(l.items), l.max_window_len)
         IN [l EXCEPT !.window = <<w0, w0 + l.max_window_len>>]

page_up(l) ==
  IF l.window[1] >= l.max_window_len
    THEN [l EXCEPT !.window = <<l.window[1] - l.max_window_len,
                                l.window[2] - l.max_window_len>>]
    ELSE [l EXCEPT !.window = <<0, 0 + l.max_window_len>>]

page_left(l) ==
  [l EXCEPT !.horizontal_offset = saturating_sub(l.horizontal_offset, l.inner_width)]

page_right(l) ==
  [l EXCEPT !.horizontal_offset =
     Min(l.horizontal_offset + l.inner_width,
         saturating_sub(l.max_width, l.inner_width))]

scroll_left(l) ==
  [l EXCEPT !.horizontal_offset = saturating_sub(l.horizontal_offset, 1)]

scroll_right(l) ==
  [l EXCEPT !.horizontal_offset =
     Min(l.horizontal_offset + 1, saturating_sub(l.max_width, l.inner_width))]

\* scroll_to_top that also goes back to the first column
scroll_to_top_and_start(l) ==
  [l EXCEPT !.window = <<0, l.max_window_len>>, !.horizontal_offset = 0]

scroll_to_top(l) == [l EXCEPT !.window = <<0, l.max_window_len>>]

\* scroll_to_bottom that ends the window at items.len()
scroll_to_bottom_ends_at_len(l) ==
  [l EXCEPT !.window = <<saturating_sub(Len(l.items), l.max_window_len),
                         Len(l.items)>>]

scroll_to_bottom(l) ==
  LET w0 == saturating_sub(Len(l.items), l.max_window_len)
  IN [l EXCEPT !.window = <<w0, w0 + l.max_window_len>>]

scroll_to_start(l) == [l EXCEPT !.horizontal_offset = 0]

scroll_to_end(l) ==
  [l EXCEPT !.horizontal_offset = saturating_sub(l.max_width, l.inner_width)]

\* &items[window.0 .. window.1.min(items.len())] is a valid range
window_in_range(items, w) == w[1] <= Min(w[2], Len(items))

window(items, w) == SubSeq(items, w[1] + 1, Min(w[2], Len(items)))

RECURSIVE max_line_width(_, _)
max_line_width(lines, acc) ==
  IF lines = << >> THEN acc
  ELSE max_line_width(Tail(lines), Max(acc, Head(lines)))

\* StatefulWidget::render of the List widget, for a slice of n rows that all
\* fit the area: the selection is left alone and the offset moves to the
\* first row drawn, which is never below the row to display.
list_render(st, n) ==
  IF n = 0 THEN st
  ELSE LET index_to_display == Min(unwrap_or(st.selected, 0), n - 1)
       IN [st EXCEPT !.offset = Min(Min(st.offset, n - 1), index_to_display)]

\* a rendering pass that keeps only the slice it has drawn
render_keeps_slice(l, width) ==
  LET visible == window(l.items, l.window)
  IN [l EXCEPT !.items = visible,
               !.inner_width = width - 1,
               !.nr_items_in_window = Len(visible),
               !.max_width = max_line_width(visible, width),
               !.state = list_render(l.state, Len(visible))]

\* The rendering pass over an area `width` columns wide.
render(l, width) ==
  LET visible == window(l.items, l.window)
  IN [l EXCEPT !.inner_width = width - 1,
               !.nr_items_in_window = Len(visible),
               !.max_width = max_line_width(visible, width),
               !.state = list_render(l.state, Len(visible))]

\* ---------------------------------------------------------------- callers
\* Action::Resize: the list pane has `rows` rows
resize(l, rows) ==
  [l EXCEPT !.max_window_len = rows,
            !.window = <<l.window[1], l.window[1] + rows>>]

\* a tracer event arrives: appended, and in follow mode the window is
\* pinned to the tail again
push_event(l, evt) ==
  LET l1 == [l EXCEPT !.items = Append(l.items, evt)]
  IN IF l1.follow THEN scroll_to_bottom(l1) ELSE l1

\* ---------------------------------------------------------------- state.rs
Pids == 1 .. MaxPid

Running == <<"Running">>
Exited(code) == <<"Exited", code>>
ExitCodes == {0}

Err == <<"Err">>
Ok(x) == <<"Ok", x>>

\* crate::proc::read_comm / read_argv: fail when the process has vanished
read_comm(pid, alive) == IF alive THEN Ok(<<"comm", pid>>) ELSE Err
read_argv(pid, alive) == IF alive THEN Ok(<<"argv", pid>>) ELSE Err

ProcessStateStore_new == << >>

\* insert that keeps only the newest state of a pid
insert_overwrites(procs, state) ==
  IF state.pid \in DOMAIN procs
    THEN [procs EXCEPT ![state.pid] = << state >>]
    ELSE procs @@ (state.pid :> << state >>)

insert(procs, state) ==
  IF state.pid \in DOMAIN procs
    THEN [procs EXCEPT ![state.pid] = Append(@, state)]
    ELSE procs @@ (state.pid :> << state >>)

\* get_current_mut that takes the first element of the vector (first_mut)
get_current_mut_first(procs, pid) ==
  [ processes |-> procs,
    ret |-> IF pid \notin DOMAIN procs THEN None
            ELSE IF procs[pid] = << >> THEN None
            ELSE Some(1) ]

\* get_current_mut through entry(pid).or_default(): a miss leaves an empty
\* vector behind
get_current_mut_or_default(procs, pid) ==
  LET made == IF pid \in DOMAIN procs THEN procs ELSE procs @@ (pid :> << >>)
  IN [ processes |-> made,
       ret |-> IF made[pid] = << >> THEN None ELSE Some(Len(made[pid])) ]

\* The &mut ProcessState returned is the position of the last element of the
\* pid's vector; `processes` is the map as the call leaves it.
get_current_mut(procs, pid) ==
  [ processes |-> procs,
    ret |-> IF pid \notin DOMAIN procs THEN None
            ELSE IF procs[pid] = << >> THEN None
            ELSE Some(Len(procs[pid])) ]

\* ProcessState::new that takes the process to be past its execve already
ProcessState_new_postexecve(pid, start_time, comm_alive, argv_alive) ==
  IF read_comm(pid, comm_alive) = Err THEN Err
  ELSE IF read_argv(pid, argv_alive) = Err THEN Err
  ELSE Ok([ pid        |-> pid,
            status     |-> Running,
            comm       |-> read_comm(pid, comm_alive)[2],
            argv       |-> read_argv(pid, argv_alive)[2],
            start_time |-> start_time,
            preexecve  |-> FALSE,
            exec_data  |-> None ])

\* ProcessState::new that goes on with an empty argv when argv cannot be read
ProcessState_new_default_argv(pid, start_time, comm_alive, argv_alive) ==
  IF read_comm(pid, comm_alive) = Err THEN Err
  ELSE Ok([ pid        |-> pid,
            status     |-> Running,
            comm       |-> read_comm(pid, comm_alive)[2],
            argv       |-> IF read_argv(pid, argv_alive) = Err
                             THEN << >> ELSE read_argv(pid, argv_alive)[2],
            start_time |-> start_time,
            preexecve  |-> TRUE,
            exec_data  |-> None ])

\* `?` returns the first error: comm is read before argv
ProcessState_new(pid, start_time, comm_alive, argv_alive) ==
  IF read_comm(pid, comm_alive) = Err THEN Err
  ELSE IF read_argv(pid, argv_alive) = Err THEN Err
  ELSE Ok([ pid        |-> pid,
            status     |-> Running,
            comm       |-> read_comm(pid, comm_alive)[2],
            argv       |-> read_argv(pid, argv_alive)[2],
            start_time |-> start_time,
            preexecve  |-> TRUE,
            exec_data  |-> None ])

\* the tracer's updates, applied through the reference get_current_mut returns
exec_update(state, data) == [state EXCEPT !.preexecve = FALSE, !.exec_data = Some(data)]
exit_update(state, code) == [state EXCEPT !.status = Exited(code)]

ExecDatas == { [filename |-> "/bin/ls", argv |-> <<"ls">>, envp |-> <<"A=1">>] }

vars == <<list, panicked, lastOp, processes, insertLog, found, clock, calls>>
listVars == <<list, panicked>>
storeVars == <<processes, insertLog, found, clock>>

Init ==
  /\ \E follow \in BOOLEAN : list = EventList_new(follow)
  /\ panicked = FALSE
  /\ lastOp = "new"
  /\ processes = ProcessStateStore_new
  /\ insertLog = [pid \in Pids |-> << >>]
  /\ found = None
  /\ clock = 0
  /\ calls = 0

\* an operation that cannot panic
Apply(op, l) ==
  /\ ~panicked
  /\ list' = l
  /\ lastOp' = op
  /\ UNCHANGED <<panicked, storeVars, calls>>

NextItemStep ==
  /\ ~panicked
  /\ lastOp' = "NextItem"
  /\ UNCHANGED storeVars
  /\ \/ /\ next_underflows(list)          \* overflow checks on: panic
        /\ panicked' = TRUE
        /\ UNCHANGED list
     \/ /\ next(list).state.selected[1] <= MaxSelection
        /\ list' = next(list)
        /\ UNCHANGED panicked

NextItem == NextItemStep /\ UNCHANGED calls

PrevItemStep ==
  /\ ~panicked
  /\ lastOp' = "PrevItem"
  /\ list' = previous(list)
  /\ UNCHANGED <<panicked, storeVars>>

PrevItem == PrevItemStep /\ UNCHANGED calls

Unselect == Apply("Unselect", unselect(list))
PageDown == Apply("PageDown", page_down(list))
PageUp == Apply("PageUp", page_up(list))
PageLeft == Apply("PageLeft", page_left(list))
PageRight == Apply("PageRight", page_right(list))
ScrollLeft == Apply("ScrollLeft", scroll_left(list))
ScrollRight == Apply("ScrollRight", scroll_right(list))
ScrollToTop == Apply("ScrollToTop", scroll_to_top(list))
ScrollToBottom == Apply("ScrollToBottom", scroll_to_bottom(list))
ScrollToStart == Apply("ScrollToStart", scroll_to_start(list))
ScrollToEnd == Apply("ScrollToEnd", scroll_to_end(list))
ToggleFollow == Apply("ToggleFollow", toggle_follow(list))
StopFollow == Apply("StopFollow", stop_follow(list))

\* the rendering pass, over an area whose width is one of `widths`
RenderIn(widths) ==
  /\ ~panicked
  /\ lastOp' = "Render"
  /\ UNCHANGED <<storeVars, calls>>
  /\ IF window_in_range(list.items, list.window)
       THEN /\ \E width \in widths : list' = render(list, width)
            /\ UNCHANGED panicked
       ELSE /\ panicked' = TRUE             \* slice index out of range
            /\ UNCHANGED list

\* a tracer event whose line has one of `lines` as its width arrives
PushEventIn(lines) ==
  /\ Len(list.items) < MaxItems
  /\ \E evt \in lines : Apply("PushEvent", push_event(list, evt))

Render == RenderIn(1 .. MaxAreaWidth)
PushEvent == PushEventIn(LineWidths)
Resize == \E rows \in 0 .. MaxWindowLen : Apply("Resize", resize(list, rows))

\* the whole list: navigation in both directions, follow mode, rendering
Next ==
  \/ NextItem \/ PrevItem \/ Unselect
  \/ PageDown \/ PageUp \/ ScrollToTop \/ ScrollToBottom
  \/ PageLeft \/ PageRight \/ ScrollLeft \/ ScrollRight
  \/ ScrollToStart \/ ScrollToEnd
  \/ ToggleFollow \/ StopFollow
  \/ Render \/ Resize \/ PushEvent

Spec == Init /\ [][Next]_vars

\* Vertical navigation on its own: the terminal keeps one width and every
\* line has the same width, so the horizontal state plays no part.
NavRender == RenderIn({MaxAreaWidth})
NavPushEvent == PushEventIn({MaxAreaWidth + 1})

NextNav ==
  \/ NextItem \/ PrevItem \/ Unselect
  \/ PageDown \/ PageUp \/ ScrollToTop \/ ScrollToBottom
  \/ ToggleFollow \/ StopFollow
  \/ NavRender \/ Resize \/ NavPushEvent

SpecNav == Init /\ [][NextNav]_vars

\* A key held down: from the top of a rendered list, NextItem over and over,
\* then PrevItem over and over, with no rendering pass in between.
RECURSIVE push_events(_, _)
push_events(l, n) ==
  IF n = 0 THEN l ELSE push_events(push_event(l, MaxAreaWidth + 1), n - 1)

\* window at the head, row 0 selected, window rendered
top_of(n, rows) ==
  render(next(scroll_to_top(resize(push_events(EventList_new(FALSE), n), rows))),
         MaxAreaWidth)

\* calls after which a held key has certainly run into the end of the list
CallsNeeded(l) == Len(l.items) + l.max_window_len + 1

InitRepeat ==
  /\ \E n \in 0 .. MaxItems, rows \in 0 .. MaxWindowLen : list = top_of(n, rows)
  /\ panicked = FALSE
  /\ lastOp = "Render"
  /\ processes = ProcessStateStore_new
  /\ insertLog = [pid \in Pids |-> << >>]
  /\ found = None
  /\ clock = 0
  /\ calls = 0

RepeatNext ==
  /\ lastOp \in {"Render", "NextItem"}
  /\ calls <= CallsNeeded(list)
  /\ NextItemStep
  /\ calls' = calls + 1

RepeatPrevious ==
  /\ \/ lastOp = "NextItem" /\ calls > CallsNeeded(list) /\ calls' = 1
     \/ lastOp = "PrevItem" /\ calls <= CallsNeeded(list) /\ calls' = calls + 1
  /\ PrevItemStep

NextRepeat == RepeatNext \/ RepeatPrevious

SpecRepeat == InitRepeat /\ [][NextRepeat]_vars

\* ---------------------------------------------------------------- the tracer
\* ProcessObserved{pid, start_time}: a state is built and, unless the
\* process has vanished meanwhile, inserted
ProcessObserved ==
  /\ clock < MaxObserved
  /\ \E pid \in Pids, comm_alive \in BOOLEAN, argv_alive \in BOOLEAN :
       LET built == ProcessState_new(pid, clock, comm_alive, argv_alive)
       IN IF built = Err
            THEN /\ lastOp' = "ObserveFailed"
                 /\ UNCHANGED <<processes, insertLog>>
            ELSE /\ lastOp' = "ProcessObserved"
                 /\ processes' = insert(processes, built[2])
                 /\ insertLog' = [insertLog EXCEPT ![pid] = Append(@, built[2])]
  /\ clock' = clock + 1
  /\ UNCHANGED <<found, listVars, calls>>

\* an update resolved through get_current_mut; dropped when the pid is unknown
UpdateCurrent(op, pid, arg) ==
  LET got == get_current_mut(processes, pid)
  IN /\ lastOp' = op
     /\ found' = IF got.ret = None THEN None ELSE Some(<<pid, got.ret[1]>>)
     /\ processes' =
          IF got.ret = None THEN got.processes
          ELSE [got.processes EXCEPT ![pid][got.ret[1]] =
                  IF op = "ProcessExecuted" THEN exec_update(@, arg)
                  ELSE exit_update(@, arg)]
     /\ UNCHANGED <<insertLog, clock, listVars, calls>>

ProcessExecuted ==
  \E pid \in Pids, data \in ExecDatas : UpdateCurrent("ProcessExecuted", pid, data)

ProcessExited ==
  \E pid \in Pids, code \in ExitCodes : UpdateCurrent("ProcessExited", pid, code)

NextStore == ProcessObserved \/ ProcessExecuted \/ ProcessExited

\* the directory on its own: the list stays as constructed without --follow
InitStore == Init /\ ~list.follow

SpecStore == InitStore /\ [][NextStore]_vars

\* ---------------------------------------------------------------- properties
VerticalOps ==
  {"NextItem", "PrevItem", "PageDown", "PageUp", "ScrollToTop", "ScrollToBottom"}

\* the vertical operations that assign the window from max_window_len
WindowSettingOps == {"PageDown", "PageUp", "ScrollToTop", "ScrollToBottom"}

\* C1 as stated, for the operations that assign the window: after a page or
\* jump operation the window lies inside the sequence,
\* 0 <= window.0 <= window.1 <= items.len(), and is at most max_window_len
\* long.
C1_WindowWithinItems ==
  lastOp \in WindowSettingOps =>
    /\ 0 <= list.window[1]
    /\ list.window[1] <= list.window[2]
    /\ list.window[2] <= Len(list.items)
    /\ list.window[2] - list.window[1] <= list.max_window_len

\* C1 (amended): 0 <= window.0 <= window.1, window.0 <= items.len() and
\* window.1 - window.0 <= max_window_len hold in every state; window.1 itself
\* may lie beyond items.len(), and the slice window() takes ends at
\* min(window.1, items.len()).
C1_WindowWellFormed ==
  /\ 0 <= list.window[1]
  /\ list.window[1] <= list.window[2]
  /\ list.window[1] <= Len(list.items)
  /\ list.window[2] - list.window[1] <= list.max_window_len
  /\ Len(window(list.items, list.window)) <= list.max_window_len

\* a jump to the top of a non-empty list shorter than the window has left
\* window.1 beyond the end of the list
C1_Witness ==
  /\ lastOp = "ScrollToTop"
  /\ 0 < Len(list.items)
  /\ Len(list.items) < list.max_window_len
  /\ list.window = <<0, list.max_window_len>>

\* C2 as stated: no navigation operation fails in any reachable state: the
\* program has not panicked, the subtractions of next() would not go below
\* zero, and the range window() slices is valid.
C2_NoNavigationError ==
  /\ ~panicked
  /\ ~next_underflows(list)
  /\ window_in_range(list.items, list.window)

\* C3 as stated: horizontal_offset never exceeds
\* max(0, max_width - inner_width) for the current max_width and inner_width.
C3_HorizontalOffsetInRange ==
  /\ 0 <= list.horizontal_offset
  /\ list.horizontal_offset <= Max(0, list.max_width - list.inner_width)

\* C4 as stated, for the rendering passes the claim singles out, those over
\* an area as wide as before: max_width after the pass is at least max_width
\* before it.
C4_MaxWidthNeverDecreases ==
  [][(/\ lastOp' = "Render"
      /\ list'.inner_width = list.inner_width
      /\ list'.nr_items_in_window > 0)
       => list'.max_width >= list.max_width]_vars

\* the held key has run into the bottom: the slice ends with the last item
\* and the last row that holds an item is selected
AtBottom(l) ==
  /\ Min(l.window[2], Len(l.items)) = Len(l.items)
  /\ l.state.selected = Some(Len(window(l.items, l.window)) - 1)

AtTop(l) ==
  /\ l.window[1] = 0
  /\ l.state.selected = Some(0)

\* C5 as stated: from the top, next applied over and over never fails and,
\* after finitely many calls, has reached the bottom, where one more next
\* changes nothing; from there previous applied over and over reaches
\* window.0 = 0 with row 0 selected, where one more previous changes nothing.
C5_HeldKeyReachesFixedPoint ==
  /\ ~panicked
  /\ (lastOp = "NextItem" /\ calls > CallsNeeded(list)) =>
       /\ AtBottom(list)
       /\ ~next_underflows(list)
       /\ next(list) = list
  /\ (lastOp = "PrevItem" /\ calls > CallsNeeded(list)) =>
       /\ AtTop(list)
       /\ previous(list) = list

\* what tells one generation of a pid from another
Generation(state) == <<state.pid, state.start_time>>

\* C6: for every pid that has been inserted, get_current_mut returns the
\* state inserted last with that pid, and every state inserted with the pid
\* is still in its history at the position it was inserted at.
C6_CurrentIsLastInserted ==
  \A pid \in Pids :
    insertLog[pid] # << >> =>
      LET got == get_current_mut(processes, pid)
      IN /\ pid \in DOMAIN processes
         /\ got.ret # None
         /\ Generation(processes[pid][got.ret[1]]) =
              Generation(insertLog[pid][Len(insertLog[pid])])
         /\ Len(processes[pid]) >= Len(insertLog[pid])
         /\ \A k \in 1 .. Len(insertLog[pid]) :
              Generation(processes[pid][k]) = Generation(insertLog[pid][k])

\* a pid was observed twice, and the exit that followed was applied to the
\* second generation while the first is still running at position 1
C6_Witness ==
  \E pid \in Pids :
    /\ lastOp = "ProcessExited"
    /\ Len(insertLog[pid]) = 2
    /\ insertLog[pid][1].start_time < insertLog[pid][2].start_time
    /\ found = Some(<<pid, 2>>)
    /\ processes[pid][1].status = Running
    /\ processes[pid][1].start_time = insertLog[pid][1].start_time
    /\ processes[pid][2].status # Running

\* C7: the directory is append-only.  No step removes a pid, shortens a
\* history or moves a generation; and a step that inserts a state puts it at
\* the end of its pid's history and leaves every state stored before, of
\* that pid and of every other pid, as it was.
C7_AppendOnly ==
  [][/\ \A pid \in DOMAIN processes :
          /\ pid \in DOMAIN processes'
          /\ Len(processes'[pid]) >= Len(processes[pid])
          /\ \A k \in 1 .. Len(processes[pid]) :
               Generation(processes'[pid][k]) = Generation(processes[pid][k])
     /\ \A pid \in Pids :
          insertLog'[pid] # insertLog[pid] =>
            LET state == insertLog'[pid][Len(insertLog'[pid])]
                before == IF pid \in DOMAIN processes THEN processes[pid] ELSE << >>
            IN /\ DOMAIN processes' = DOMAIN processes \cup {pid}
               /\ processes'[pid] = Append(before, state)
               /\ \A other \in DOMAIN processes \ {pid} :
                    processes'[other] = processes[other]
    ]_vars

\* an insert has just extended a history that already held a generation,
\* next to the history of another pid
C7_Witness ==
  \E pid \in Pids, other \in Pids :
    /\ lastOp = "ProcessObserved"
    /\ pid # other
    /\ other \in DOMAIN processes
    /\ pid \in DOMAIN processes
    /\ Len(processes[pid]) >= 2
    /\ processes[pid][Len(processes[pid])].start_time = clock - 1

\* C8: get_current_mut returns none exactly for the pids never inserted, no
\* key maps to an empty vector, and a call that misses hands the directory
\* back as it was, without an entry for the unknown pid.
C8_MissIffNeverInserted ==
  /\ \A pid \in DOMAIN processes : processes[pid] # << >>
  /\ \A pid \in Pids :
       LET got == get_current_mut(processes, pid)
       IN /\ got.ret = None <=> insertLog[pid] = << >>
          /\ got.ret = None =>
               /\ got.processes = processes
               /\ pid \notin DOMAIN got.processes

\* an update for a pid never observed has just been dropped while another
\* pid is in the directory
C8_Witness ==
  \E pid \in Pids :
    /\ lastOp \in {"ProcessExecuted", "ProcessExited"}
    /\ found = None
    /\ insertLog[pid] = << >>
    /\ pid \notin DOMAIN processes
    /\ processes # ProcessStateStore_new

\* C9 as stated: the vertical move that follows unselect leaves the row
\* unselect remembered selected, or row 0 if it remembered none.
C9_AnyMoveRestoresSelection ==
  [][(lastOp = "Unselect" /\ lastOp' \in VerticalOps)
       => list'.state.selected = Some(unwrap_or(list.last_selected, 0))]_vars

\* C9 (amended): unselect clears the selection and remembers the row that
\* was selected, if any; the next or previous that follows selects the
\* remembered row, or row 0 if none was remembered, and leaves the window
\* where it is; page_down, page_up, scroll_to_top and scroll_to_bottom do not
\* restore the selection: after them the list is still unselected.
C9_NextOrPreviousRestoresSelection ==
  [][/\ lastOp' = "Unselect" =>
          /\ list'.state.selected = None
          /\ list'.last_selected = list.state.selected
     /\ (lastOp = "Unselect" /\ lastOp' \in {"NextItem", "PrevItem"}) =>
          /\ list'.state.selected = Some(unwrap_or(list.last_selected, 0))
          /\ list'.window = list.window
          /\ ~panicked'
     /\ (lastOp = "Unselect" /\ lastOp' \in WindowSettingOps) =>
          list'.state.selected = None
    ]_vars

\* row 1 was remembered and a next or previous has selected it again
C9_Witness ==
  /\ lastOp \in {"NextItem", "PrevItem"}
  /\ list.last_selected = Some(1)
  /\ list.state.selected = Some(1)
  /\ Len(list.items) >= 2

\* page_up as the claim and the code have it
PageUpMoves(l, w) ==
  IF l.window[1] >= l.max_window_len
    THEN w = <<l.window[1] - l.max_window_len, l.window[2] - l.max_window_len>>
    ELSE w = <<0, l.max_window_len>>

\* C10 as stated: page_down slides by max_window_len when
\* window.1 + max_window_len <= items.len() and otherwise leaves the window
\* on the last max_window_len items, ending at items.len() and not beyond;
\* page_up slides up by max_window_len when window.0 >= max_window_len and
\* otherwise leaves the window at the head.
C10_PageDownNeverOvershoots ==
  [][/\ lastOp' = "PageDown" =>
          IF list.window[2] + list.max_window_len <= Len(list.items)
            THEN list'.window = <<list.window[1] + list.max_window_len,
                                  list.window[2] + list.max_window_len>>
            ELSE /\ list'.window[1] = Max(0, Len(list.items) - list.max_window_len)
                 /\ list'.window[2] = Len(list.items)
     /\ lastOp' = "PageUp" => PageUpMoves(list, list'.window)
    ]_vars

\* C10 (amended): page_down slides by max_window_len when
\* window.1 + max_window_len <= items.len(); otherwise window.0 becomes
\* max(0, items.len() - max_window_len) and window.1 = window.0 +
\* max_window_len, which is the last max_window_len items when the sequence
\* has that many, and (0, max_window_len), ending beyond items.len(), when it
\* is shorter; the slice shown is the last min(max_window_len, items.len())
\* items either way.  page_up is as stated.
C10_PageMoves ==
  [][/\ lastOp' = "PageDown" =>
          LET len == Len(list.items)
              m   == list.max_window_len
          IN IF list.window[2] + m <= len
               THEN list'.window = <<list.window[1] + m, list.window[2] + m>>
               ELSE /\ list'.window = <<Max(0, len - m), Max(0, len - m) + m>>
                    /\ len >= m => list'.window = <<len - m, len>>
                    /\ len < m => list'.window = <<0, m>>
                    /\ window(list'.items, list'.window) =
                         SubSeq(list.items, len - Min(m, len) + 1, len)
     /\ lastOp' = "PageUp" => PageUpMoves(list, list'.window)
    ]_vars

\* a page_down that could not slide a whole page has left the window on the
\* last two of three items
C10_Witness ==
  /\ lastOp = "PageDown"
  /\ Len(list.items) = 3
  /\ list.max_window_len = 2
  /\ list.window = <<1, 3>>

\* ------------------------------------------------------------------- C11
\* Jumps on their own: a list of n items in a viewport of rows rows, then
\* scroll_to_top and scroll_to_bottom in any order.
MaxJumpItems == 100
MaxJumpWindowLen == 10

\* n events pushed one after the other onto a list that does not follow
with_events(l, n) ==
  [l EXCEPT !.items = l.items \o [i \in 1 .. n |-> MaxAreaWidth + 1]]

InitJump ==
  /\ \E n \in 0 .. MaxJumpItems, rows \in 0 .. MaxJumpWindowLen :
       list = resize(with_events(EventList_new(FALSE), n), rows)
  /\ panicked = FALSE
  /\ lastOp = "Resize"
  /\ processes = ProcessStateStore_new
  /\ insertLog = [pid \in Pids |-> << >>]
  /\ found = None
  /\ clock = 0
  /\ calls = 0

NextJump == ScrollToTop \/ ScrollToBottom

SpecJump == InitJump /\ [][NextJump]_vars

\* C11 (as stated): scroll_to_top sets the window to [0, max_window_len) and
\* scroll_to_bottom sets it to [len - max_window_len, len), the start
\* clamped at zero.
C11_JumpsAsStated ==
  [][LET len == Len(list.items)
         m   == list.max_window_len
     IN /\ lastOp' = "ScrollToTop" => list'.window = <<0, m>>
        /\ lastOp' = "ScrollToBottom" => list'.window = <<Max(0, len - m), len>>
    ]_vars

\* C11 (amended): scroll_to_top sets the window to (0, max_window_len);
\* scroll_to_bottom sets window.0 = max(0, len - max_window_len) and
\* window.1 = window.0 + max_window_len, which is (len - max_window_len, len)
\* when len >= max_window_len and (0, max_window_len), ending beyond len,
\* when the sequence is shorter.  With 100 items and max_window_len 10 the
\* two jumps give (0, 10) and (90, 100).
C11_Jumps ==
  [][LET len == Len(list.items)
         m   == list.max_window_len
     IN /\ lastOp' = "ScrollToTop" =>
             /\ list'.window = <<0, m>>
             /\ (len = 100 /\ m = 10) => list'.window = <<0, 10>>
        /\ lastOp' = "ScrollToBottom" =>
             /\ list'.window = <<Max(0, len - m), Max(0, len - m) + m>>
             /\ len >= m => list'.window = <<len - m, len>>
             /\ len < m => list'.window = <<0, m>>
             /\ (len = 100 /\ m = 10) => list'.window = <<90, 100>>
        /\ lastOp' \in {"ScrollToTop", "ScrollToBottom"} =>
             list' = [list EXCEPT !.window = list'.window]
    ]_vars

\* 100 items, 10 rows: the jump to the bottom has been made
C11_Witness ==
  /\ lastOp = "ScrollToBottom"
  /\ Len(list.items) = 100
  /\ list.max_window_len = 10
  /\ list.window = <<90, 100>>

\* ------------------------------------------------------------------- C12
\* C12: in every reachable state the selection is either absent or a row of
\* the window: 0 <= selection < window.1 - window.0.
C12_SelectionWithinWindow ==
  \/ list.state.selected = None
  \/ /\ 0 <= list.state.selected[1]
     /\ list.state.selected[1] < list.window[2] - list.window[1]

\* ------------------------------------------------------------------- C13
\* C13: every stored process state that has exec_data has preexecve false,
\* whatever observed / exec / exit updates came before; every state as
\* ProcessState::new built it (the states insert was given) has preexecve
\* true and no exec_data.
C13_ExecDataAfterExecve ==
  /\ \A pid \in DOMAIN processes : \A i \in 1 .. Len(processes[pid]) :
       processes[pid][i].exec_data # None => ~processes[pid][i].preexecve
  /\ \A pid \in Pids : \A i \in 1 .. Len(insertLog[pid]) :
       /\ insertLog[pid][i].preexecve
       /\ insertLog[pid][i].exec_data = None

\* a pid with two generations: the older one still before its execve, the
\* current one exec'd and then exited
C13_Witness ==
  \E pid \in DOMAIN processes :
    /\ Len(processes[pid]) = 2
    /\ processes[pid][1].preexecve
    /\ processes[pid][1].exec_data = None
    /\ processes[pid][2].exec_data # None
    /\ ~processes[pid][2].preexecve
    /\ processes[pid][2].status # Running

\* ------------------------------------------------------------ every operation
\* Every operation of the list together, on a short list of lines wider than
\* the terminal, in a low viewport.
MaxFrameItems == 2
MaxFrameWindowLen == 1

FramePushEvent == Len(list.items) < MaxFrameItems /\ NavPushEvent
FrameResize == \E rows \in 0 .. MaxFrameWindowLen : Apply("Resize", resize(list, rows))

NextFrame ==
  \/ NextItem \/ PrevItem \/ Unselect
  \/ PageDown \/ PageUp \/ ScrollToTop \/ ScrollToBottom
  \/ PageLeft \/ PageRight \/ ScrollLeft \/ ScrollRight
  \/ ScrollToStart \/ ScrollToEnd
  \/ ToggleFollow \/ StopFollow
  \/ Render \/ FrameResize \/ FramePushEvent

SpecFrame == Init /\ [][NextFrame]_vars

\* ------------------------------------------------------------------- C14
\* C14: while follow is true, every append leaves the window at the
\* jump-to-bottom window for the new length, window.0 =
\* max(0, len - max_window_len), wherever it was scrolled to before; turning
\* follow off, by toggle_follow from true or by stop_follow, clears follow and
\* leaves window, selection and horizontal_offset (and all the rest) as
\* they were.
C14_FollowKeepsBottom ==
  [][/\ (lastOp' = "PushEvent" /\ list.follow) =>
          LET len == Len(list'.items)
              m   == list.max_window_len
          IN /\ len = Len(list.items) + 1
             /\ list'.window = scroll_to_bottom(list').window
             /\ list'.window = <<Max(0, len - m), Max(0, len - m) + m>>
     /\ (lastOp' = "PushEvent" /\ ~list.follow) => list'.window = list.window
     /\ (lastOp' = "StopFollow" \/ (lastOp' = "ToggleFollow" /\ list.follow)) =>
          /\ ~list'.follow
          /\ list'.window = list.window
          /\ list'.state = list.state
          /\ list'.horizontal_offset = list.horizontal_offset
          /\ list' = [list EXCEPT !.follow = FALSE]
     /\ (lastOp' = "ToggleFollow" /\ ~list.follow) =>
          list' = [list EXCEPT !.follow = TRUE]
    ]_vars

\* follow is on, the view is scrolled to the right, and an append has put
\* the one-row window on the last of two items
C14_Witness ==
  /\ lastOp = "PushEvent"
  /\ list.follow
  /\ Len(list.items) = 2
  /\ list.max_window_len = 1
  /\ list.window = <<1, 2>>
  /\ list.horizontal_offset > 0
  /\ list.state.selected # None

\* ------------------------------------------------------------------- C15
EventListOps ==
  VerticalOps \cup
  {"PageLeft", "PageRight", "ScrollLeft", "ScrollRight", "ScrollToStart",
   "ScrollToEnd", "Unselect", "ToggleFollow", "StopFollow", "Render"}

\* C15: no operation of the list (vertical and horizontal navigation,
\* unselect, toggle_follow, stop_follow, the rendering pass) changes items:
\* the length and the event at every index are the same afterwards.
C15_OperationsKeepItems ==
  [][lastOp' \in EventListOps =>
       /\ Len(list'.items) = Len(list.items)
       /\ \A i \in 1 .. Len(list.items) : list'.items[i] = list.items[i]
    ]_vars

\* a rendering pass over a window that shows the second of two items only
C15_Witness ==
  /\ lastOp = "Render"
  /\ Len(list.items) = 2
  /\ list.window = <<1, 2>>
  /\ list.nr_items_in_window = 1

\* ------------------------------------------------------------------- C16
\* the last row of the window that holds an item
LastItemRow(l) == Min(l.window[2], Len(l.items)) - l.window[1] - 1

\* C16: next() with a row selected: on the last row of the window with
\* window.1 < items.len() the window slides down by one and the selection
\* stays; otherwise the window stays and the selection grows by one, clamped
\* to the last row that holds an item; on the last item of the sequence
\* neither window nor selection changes.
C16_NextMovesDown ==
  [][(lastOp' = "NextItem" /\ list.state.selected # None) =>
       LET i  == list.state.selected[1]
           w0 == list.window[1]
           w1 == list.window[2]
       IN /\ ~panicked'
          /\ IF i = w1 - w0 - 1 /\ w1 < Len(list.items)
               THEN /\ list'.window = <<w0 + 1, w1 + 1>>
                    /\ list'.state.selected = Some(i)
               ELSE /\ list'.window = list.window
                    /\ list'.state.selected = Some(Min(i + 1, LastItemRow(list)))
          /\ w0 + i = Len(list.items) - 1 =>
               /\ list'.window = list.window
               /\ list'.state.selected = list.state.selected
    ]_vars

\* ------------------------------------------------------------------- C17
\* what ProcessState::new returns on success
FreshState(state, pid, start_time) ==
  /\ state.pid = pid
  /\ state.start_time = start_time
  /\ state.status = Running
  /\ state.preexecve
  /\ state.exec_data = None

\* C17: ProcessState::new(pid, start_time) either fails, when reading comm
\* or reading argv fails, and then produces no state (nothing is stored, the
\* directory is as it was), or succeeds with the given pid and start_time,
\* status Running, preexecve true and no exec_data.
C17_NewFailsOrSucceeds ==
  [][/\ \A pid \in Pids, comm_alive \in BOOLEAN, argv_alive \in BOOLEAN :
          LET built == ProcessState_new(pid, clock, comm_alive, argv_alive)
          IN IF comm_alive /\ argv_alive
               THEN /\ built # Err
                    /\ built = Ok(built[2])
                    /\ FreshState(built[2], pid, clock)
               ELSE built = Err
     /\ lastOp' = "ObserveFailed" =>
          /\ processes' = processes
          /\ insertLog' = insertLog
     /\ lastOp' = "ProcessObserved" =>
          \E pid \in Pids :
            /\ Len(insertLog'[pid]) = Len(insertLog[pid]) + 1
            /\ \A other \in Pids \ {pid} : insertLog'[other] = insertLog[other]
            /\ FreshState(insertLog'[pid][Len(insertLog'[pid])], pid, clock)
            /\ processes'[pid][Len(processes'[pid])] =
                 insertLog'[pid][Len(insertLog'[pid])]
    ]_vars

\* a construction has failed after two others had succeeded: the directory
\* still holds those two states
C17_Witness ==
  /\ lastOp = "ObserveFailed"
  /\ clock = 3
  /\ \E pid \in DOMAIN processes : Len(processes[pid]) = 2

\* ------------------------------------------------------------------- C18
\* C18: whenever a row is selected it refers to an existing event:
\* window.0 + selection < items.len(), also on an empty sequence, on one
\* shorter than max_window_len, after appends with no rendering pass in
\* between, and after the selection was restored from the remembered row.
C18_SelectionRefersToEvent ==
  list.state.selected # None =>
    list.window[1] + list.state.selected[1] < Len(list.items)

\* ------------------------------------------------------------------- C19
\* Select a row, unselect up to MaxUnselects times in a row, then next:
\* `calls` counts the unselects.
MaxUnselects == 2

SelectRow ==
  /\ lastOp \in {"Render", "NextItem"}
  /\ calls = 0
  /\ NextItemStep
  /\ UNCHANGED calls

UnselectAgain ==
  /\ ~panicked
  /\ lastOp \in {"Render", "NextItem", "Unselect"}
  /\ lastOp = "NextItem" => calls = 0
  /\ calls < MaxUnselects
  /\ list' = unselect(list)
  /\ lastOp' = "Unselect"
  /\ calls' = calls + 1
  /\ UNCHANGED <<panicked, storeVars>>

RestoreRow ==
  /\ lastOp = "Unselect"
  /\ NextItemStep
  /\ UNCHANGED calls

NextUnselect == SelectRow \/ UnselectAgain \/ RestoreRow

SpecUnselect == InitRepeat /\ [][NextUnselect]_vars

\* C19 (as stated): unselect with no row selected leaves the whole list
\* state, the remembered row included, as it was.
C19_UnselectIdempotent ==
  [][(lastOp' = "Unselect" /\ list.state.selected = None) => list' = list]_vars

\* C19 (amended): unselect with no row selected changes nothing but the
\* remembered row, which it clears.  So select row r, unselect, next ends
\* with row r selected, while select row r, unselect, unselect, next ends
\* with row 0 selected.
C19_SecondUnselectForgetsRow ==
  [][/\ (lastOp' = "Unselect" /\ list.state.selected = None) =>
          /\ list'.last_selected = None
          /\ list' = [list EXCEPT !.last_selected = None]
     /\ (lastOp' = "Unselect" /\ list.state.selected # None) =>
          /\ list'.last_selected = list.state.selected
          /\ list'.state.selected = None
     /\ (lastOp = "Unselect" /\ lastOp' = "NextItem" /\ calls = 1) =>
          /\ list.last_selected # None
          /\ list'.state.selected = list.last_selected
     /\ (lastOp = "Unselect" /\ lastOp' = "NextItem" /\ calls >= 2) =>
          /\ list.last_selected = None
          /\ list'.state.selected = Some(0)
    ]_vars

\* two unselects in a row, then next, over a window of two rows that both
\* hold an item: row 0 is selected
C19_Witness ==
  /\ lastOp = "NextItem"
  /\ calls = 2
  /\ list.state.selected = Some(0)
  /\ list.last_selected = None
  /\ list.window[2] - list.window[1] = 2
  /\ list.nr_items_in_window = 2

\* ------------------------------------------------------------------- C20
HorizontalOps ==
  {"ScrollLeft", "ScrollRight", "PageLeft", "PageRight", "ScrollToStart",
   "ScrollToEnd"}

\* C20: each horizontal operation changes nothing but horizontal_offset;
\* each vertical operation, unselect included, leaves horizontal_offset as
\* it was; no navigation operation changes max_width, inner_width,
\* max_window_len or follow, and nothing but the rendering pass changes
\* max_width.
C20_NavigationAxesIndependent ==
  [][/\ lastOp' \in HorizontalOps =>
          list' = [list EXCEPT !.horizontal_offset = list'.horizontal_offset]
     /\ lastOp' \in VerticalOps \cup {"Unselect"} =>
          list'.horizontal_offset = list.horizontal_offset
     /\ lastOp' \in HorizontalOps \cup VerticalOps \cup {"Unselect"} =>
          /\ list'.max_width = list.max_width
          /\ list'.inner_width = list.inner_width
          /\ list'.max_window_len = list.max_window_len
          /\ list'.follow = list.follow
     /\ lastOp' # "Render" => list'.max_width = list.max_width
    ]_vars

\* the view is scrolled to the right and down, and a jump to the top has
\* brought the window back up
C20_Witness ==
  /\ lastOp = "ScrollToTop"
  /\ list.horizontal_offset > 0
  /\ list.window = <<0, 1>>
  /\ Len(list.items) = 2
  /\ list.state.selected # None

====
